---- MODULE Spec2Model ----
(***************************************************************************)
(* Model of the client state of chapmanio/movies-next-ssr:                 *)
(*   - the home page (src/pages/index.tsx): server-side rendering of the   *)
(*     first search result, and the client effect that re-fetches on every *)
(*     change of (search, page, tab) and drops the results of superseded   *)
(*     calls through the isCancelled flag of the effect's closure;         *)
(*   - the lists page (src/unnamed/part_000): the seed of the global list  *)
(*     store, and create / rename / delete of lists.                       *)
(*   - the application shell (src/pages/_app.tsx, WithAuth, Footer): the   *)
(*     one list modal, the user store, sign-out and the WithAuth redirect; *)
(*   - the server (getServerSideProps of the home, movie, tv, person and   *)
(*     lists pages): auth resolution, lookups, redirects and the cast.     *)
(*                                                                         *)
(* JavaScript is single threaded: every callback runs to completion, so    *)
(* every action below is one callback (or one leg of the effect), and the  *)
(* only interleaving is the order in which callbacks run.                  *)
(***************************************************************************)
EXTENDS Integers, Sequences, FiniteSets, TLC

\* ------------------------------------------------------------------ bounds
\* number of runs of the home page's effect body (one per intent change)
MaxRuns == 2
\* total_pages reported by the remote: the pages the pagination control offers
MaxPage == 2
\* number of list calls (create, rename, delete) issued in one behaviour
MaxListCalls == 2
\* number of signOut calls in flight at once
MaxSignOuts == 2

\* ------------------------------------------------------------ input domains
\* strings are sequences of one-character strings
Queries == { <<>>, <<" ">>, <<" ", "a">> }
\* the tab URL parameter: "" is an absent parameter, "other" any other string
TabParams == { "", "all", "movie", "tv", "person", "other" }
\* the page URL parameter: <<>> is an absent parameter
PageParams == { <<>>, <<"2">>, <<"x">> }
\* the values a Tab button or the select hands to the handlers
Tabs == { "all", "movie", "tv", "person" }

\* a JavaScript number: an integer, or NaN
Num(n) == [ num |-> n ]
NaN == [ nan |-> TRUE ]
Digits == <<"0", "1", "2", "3", "4", "5", "6", "7", "8", "9">>

\* ------------------------------------------------------- string conversions
IsSpace(ch) == ch = " "

RECURSIVE TrimStart(_)
TrimStart(s) == IF s # <<>> /\ IsSpace(Head(s)) THEN TrimStart(Tail(s)) ELSE s

RECURSIVE TrimEnd(_)
TrimEnd(s) ==
  IF s # <<>> /\ IsSpace(s[Len(s)]) THEN TrimEnd(SubSeq(s, 1, Len(s) - 1)) ELSE s

\* String.prototype.trim
Trim(s) == TrimEnd(TrimStart(s))

DigitVal(ch) == CHOOSE d \in 0..9 : Digits[d + 1] = ch
IsDigit(ch) == \E d \in 0..9 : Digits[d + 1] = ch

\* the value of the longest prefix of digits of s, acc being the value so far
RECURSIVE DigitsPrefix(_, _)
DigitsPrefix(s, acc) ==
  IF s # <<>> /\ IsDigit(Head(s))
  THEN DigitsPrefix(Tail(s), 10 * acc + DigitVal(Head(s)))
  ELSE acc

\* parseInt(s): leading blanks, an optional sign, then digits; NaN without digits
ParseInt(s) ==
  LET t == TrimStart(s)
      neg == t # <<>> /\ Head(t) = "-"
      u == IF t # <<>> /\ Head(t) \in {"-", "+"} THEN Tail(t) ELSE t
  IN IF u = <<>> \/ ~IsDigit(Head(u)) THEN NaN
     ELSE IF neg THEN Num(0 - DigitsPrefix(u, 0)) ELSE Num(DigitsPrefix(u, 0))

\* Number.prototype.toString of a natural number
RECURSIVE NumToString(_)
NumToString(n) ==
  IF n < 10 THEN <<Digits[n + 1]>>
  ELSE NumToString(n \div 10) \o <<Digits[(n % 10) + 1]>>

\* ------------------------------------------------------------- home: intent
\* `search && search.trim() !== ''`
IsSearch(search) == search # <<>> /\ Trim(search) # <<>>

\* getServerSideProps: search, tab and page from the request's query
ServerIntent(q) ==
  [ search |-> IF q.search # <<>> THEN q.search ELSE <<>>,
    tab    |-> IF q.tab # "" THEN q.tab ELSE "all",
    page   |-> IF q.page # <<>> THEN ParseInt(q.page) ELSE Num(1) ]

\* Home: derived state from router.query
ClientIntent(q) ==
  [ search |-> IF q.search # <<>> THEN q.search ELSE <<>>,
    tab    |-> IF q.tab # "" THEN q.tab ELSE "all",
    page   |-> ParseInt(IF q.page # <<>> THEN q.page ELSE <<"1">>) ]

\* --------------------------------------------------------- home: the branch
NoArgs == <<>>
SearchArgs(i) == <<i.search, i.page>>
Call(op, args, fmt) == [ kind |-> "call", op |-> op, args |-> args, fmt |-> fmt ]
NoCall == [ kind |-> "none" ]

\* ClientBranch with the tv results formatted as movies
ClientBranchTvAsMovie(i) ==
  IF IsSearch(i.search)
  THEN CASE i.tab = "all"    -> Call("searchAll", SearchArgs(i), "formatSearchAll")
         [] i.tab = "movie"  -> Call("searchMovie", SearchArgs(i), "formatSearchMovie")
         [] i.tab = "tv"     -> Call("searchTv", SearchArgs(i), "formatSearchMovie")
         [] i.tab = "person" -> Call("searchPerson", SearchArgs(i), "formatSearchPerson")
         [] OTHER            -> NoCall
  ELSE Call("getTrending", NoArgs, "formatSearchAll")

\* ClientBranch with `search` tested without trim()
ClientBranchNoTrim(i) ==
  IF i.search # <<>>
  THEN CASE i.tab = "all"    -> Call("searchAll", SearchArgs(i), "formatSearchAll")
         [] i.tab = "movie"  -> Call("searchMovie", SearchArgs(i), "formatSearchMovie")
         [] i.tab = "tv"     -> Call("searchTv", SearchArgs(i), "formatSearchTvShow")
         [] i.tab = "person" -> Call("searchPerson", SearchArgs(i), "formatSearchPerson")
         [] OTHER            -> NoCall
  ELSE Call("getTrending", NoArgs, "formatSearchAll")

\* the remote operation and the formatter the client effect selects
ClientBranch(i) ==
  IF IsSearch(i.search)
  THEN CASE i.tab = "all"    -> Call("searchAll", SearchArgs(i), "formatSearchAll")
         [] i.tab = "movie"  -> Call("searchMovie", SearchArgs(i), "formatSearchMovie")
         [] i.tab = "tv"     -> Call("searchTv", SearchArgs(i), "formatSearchTvShow")
         [] i.tab = "person" -> Call("searchPerson", SearchArgs(i), "formatSearchPerson")
         [] OTHER            -> NoCall
  ELSE Call("getTrending", NoArgs, "formatSearchAll")

\* the remote operation and the formatter getServerSideProps selects
ServerBranch(i) ==
  IF IsSearch(i.search)
  THEN CASE i.tab = "all"    -> Call("searchAll", SearchArgs(i), "formatSearchAll")
         [] i.tab = "movie"  -> Call("searchMovie", SearchArgs(i), "formatSearchMovie")
         [] i.tab = "tv"     -> Call("searchTv", SearchArgs(i), "formatSearchTvShow")
         [] i.tab = "person" -> Call("searchPerson", SearchArgs(i), "formatSearchPerson")
         [] OTHER            -> NoCall
  ELSE Call("getTrending", NoArgs, "formatSearchAll")

\* ------------------------------------------------------- home: the envelope
\* what the remote answers to a call: the result set is fixed by the
\* operation and its arguments; id tells which call the answer belongs to
\* (0 is the call of the server-side rendering)
Response(id, b) == [ id |-> id, results |-> <<b.op, b.args>>, total_pages |-> MaxPage ]
Failure(id) == [ id |-> id, message |-> "upstream" ]

Pending == [ status |-> "pending" ]
Resolved(data) == [ status |-> "resolved", data |-> data ]
Rejected(error) == [ status |-> "rejected", error |-> error ]
RejectedBare == [ status |-> "rejected" ]

\* lib/format is applied symbolically: which formatter, to which data
Format(fmt, data) == [ fmt |-> fmt, of |-> data ]
NoItems == <<>>

\* getServerSideProps of the home page; ok is the outcome of its remote call
HomeServerSideProps(q, ok) ==
  LET i == ServerIntent(q)
      b == ServerBranch(i)
  IN IF b.kind = "none" THEN [ kind |-> "fault" ]
     ELSE IF ok
          THEN [ kind |-> "props",
                 searchResults |-> Response(0, b),
                 formattedResults |-> Format(b.fmt, Response(0, b)) ]
          ELSE [ kind |-> "error", error |-> Failure(0) ]

\* the server's error dropped: the envelope starts Pending
InitialSearchResultsNoError(p) ==
  IF p.kind = "props" THEN Resolved(p.searchResults) ELSE Pending

\* useState initial values of Home
InitialSearchResults(p) ==
  IF p.kind = "props" THEN Resolved(p.searchResults)
  ELSE IF p.kind = "error" THEN Rejected(p.error)
  ELSE Pending

\* the server's formatted list dropped
InitialFormattedResultsEmpty(p) == NoItems

InitialFormattedResults(p) ==
  IF p.kind = "props" THEN p.formattedResults ELSE NoItems

VARIABLES
  props,             \* what getServerSideProps returned for the first render
  query,             \* router.query: [search, tab, page]
  searchResults,     \* Home state: the envelope
  formattedResults,  \* Home state: the display list
  firstRun,          \* Home ref firstRun.current
  pc,                \* position of the running effect: "idle" or "branch"
  calls,             \* remote calls in flight: run -> [branch, intent, isCancelled]
  runs,              \* number of runs of the effect's body so far
  changed,           \* history: search, page or tab changed on the client
  lastDone,          \* history: the call whose then/catch ran last
  scrolls            \* number of tabRef.current.scrollIntoView calls so far

homeVars == <<props, query, searchResults, formattedResults, firstRun, pc,
              calls, runs, changed, lastDone, scrolls>>

VARIABLES
  page,              \* the page shown: "lists" or "other"
  listState,         \* global list store (ListProvider): its lists, or undefined
  listsProps,        \* props.lists of the lists page's current render
  lists,             \* Lists state: the lists displayed
  slug,              \* Lists state: slug of the list being edited, <<>> if none
  name,              \* Lists state: the name field
  submitLoading,     \* Lists state
  confirm,           \* Lists state: the notification [visible, title]
  error,             \* Lists state: the alert's message, <<>> if none
  listCalls,         \* list calls in flight: id -> [op, slug, name, live]
  listIssued,        \* number of list calls issued so far
  created,           \* number of lists the remote has created so far
  listDone           \* history: the list call that completed last

listVars == <<page, listState, listsProps, lists, slug, name,
              submitLoading, confirm, error, listCalls, listIssued, created,
              listDone>>

VARIABLES
  route,             \* the page shown by the application: [page, record]
  gate,              \* the WithAuth of the page shown: [restricted, replaced]
  listModal,         \* state of the ListModalProvider
  modalLast,         \* history: the last command given to the list modal
  userState,         \* state of the UserProvider
  signOuts,          \* signOut calls in flight
  lastSignOut        \* history: outcome of the signOut call that completed last

appVars == <<route, gate, listModal, modalLast, userState, signOuts, lastSignOut>>

VARIABLES
  req,               \* server: the request being handled: [page, ...]
  ssrPc,             \* server: position in getServerSideProps
  locals,            \* server: the handler's local variables
  remoteLog,         \* server: the remote calls made for the request, in order
  outcome,           \* server: what the handler returned, or that it threw
  rendered           \* server: what the page component rendered from the props

ssrVars == <<req, ssrPc, locals, remoteLog, outcome, rendered>>

vars == <<homeVars, listVars, appVars, ssrVars>>

Intent == ClientIntent(query)
Mounted == props.kind # "fault"
NoneDone == [ id |-> 0 ]

\* the page is rendered by the server, then mounted with the same query
HomeInit ==
  \E s \in Queries, t \in TabParams, p \in PageParams, ok \in BOOLEAN :
    LET q == [ search |-> s, tab |-> t, page |-> p ]
    IN /\ query = q
       /\ props = HomeServerSideProps(q, ok)
       /\ searchResults = InitialSearchResults(props)
       /\ formattedResults = InitialFormattedResults(props)
       /\ firstRun = TRUE
       /\ pc = "idle"
       /\ calls = << >>
       /\ runs = 0
       /\ changed = FALSE
       /\ lastDone = NoneDone
       /\ scrolls = 0

\* the cleanup without effect
RunCleanupNone(cs) == cs

\* the cleanup returned by the previous run: `isCancelled = true` in the
\* closure of that run, which only the call of that run reads
RunCleanup(cs) ==
  IF runs \in DOMAIN cs
  THEN [ cs EXCEPT ![runs] = [ @ EXCEPT !.isCancelled = TRUE ] ]
  ELSE cs

\* the effect's body on the first run too
NotFirstRunAlways(fr) == TRUE

\* `if (!firstRun.current)`
NotFirstRun(fr) == ~fr

\* the previous envelope kept while the call is in flight
OnEffectStartKeep(env) == env

\* `setSearchResults({ status: 'pending' })`
OnEffectStart(env) == Pending

\* `if (search && search.trim() !== '') { if (tabRef.current) scrollIntoView }`:
\* the results region is rendered from the mount on, so tabRef.current is set
ScrollsAfter(i, n) == IF IsSearch(i.search) THEN n + 1 ELSE n

\* the effect's first leg: React runs the previous run's cleanup, then the
\* effect: pending on every run but the first, and the scroll for a search
EffectStart ==
  IF NotFirstRun(firstRun)
  THEN /\ runs < MaxRuns
       /\ runs' = runs + 1
       /\ calls' = RunCleanup(calls)
       /\ searchResults' = OnEffectStart(searchResults)
       /\ scrolls' = ScrollsAfter(ClientIntent(query'), scrolls)
       /\ pc' = "branch"
       /\ UNCHANGED <<formattedResults, firstRun>>
  ELSE /\ firstRun' = FALSE
       /\ UNCHANGED <<searchResults, formattedResults, pc, calls, runs, scrolls>>

\* the effect's run on mount
MountEffect ==
  /\ Mounted /\ firstRun /\ runs = 0 /\ pc = "idle"
  /\ UNCHANGED <<props, query, changed, lastDone>>
  /\ EffectStart

\* router.push(newQuery, shallow): when search, page or tab changed, the
\* effect runs again. The change of the URL, the cleanup of the previous run
\* and the first leg of the new run are one step: React flushes the effects
\* of a render before it handles the state update of any other callback.
Push(newQuery) ==
  /\ Mounted /\ ~firstRun /\ pc = "idle"
  /\ newQuery # query
  /\ query' = newQuery
  /\ IF ClientIntent(newQuery) # ClientIntent(query)
     THEN /\ changed' = TRUE
          /\ EffectStart
     ELSE UNCHANGED <<searchResults, formattedResults, firstRun, pc, calls,
                      runs, changed, scrolls>>
  /\ UNCHANGED <<props, lastDone>>

\* the effect's second leg: the call of the branch, or the default case
EffectBranch ==
  /\ pc = "branch"
  /\ pc' = "idle"
  /\ LET b == ClientBranch(Intent)
     IN IF b.kind = "call"
        THEN /\ calls' = calls @@ (runs :> [ branch |-> b, intent |-> Intent,
                                             isCancelled |-> FALSE ])
             /\ UNCHANGED <<searchResults, formattedResults>>
        ELSE /\ searchResults' = RejectedBare
             /\ formattedResults' = NoItems
             /\ UNCHANGED calls
  /\ UNCHANGED <<props, query, firstRun, runs, changed, lastDone, scrolls>>

Without(f, id) == [ k \in DOMAIN f \ {id} |-> f[k] ]

\* the result of every call applied
AppliesAlways(c) == TRUE

\* the result of cancelled calls applied
AppliesCancelled(c) == c.isCancelled

\* `if (!isCancelled)` in then and catch
Applies(c) == ~c.isCancelled

\* .then((data) => ...) of a call
CallThen(id) ==
  /\ pc = "idle" /\ id \in DOMAIN calls
  /\ calls' = Without(calls, id)
  /\ lastDone' = [ id |-> id, ok |-> TRUE, stale |-> id < runs ]
  /\ IF Applies(calls[id])
     THEN /\ searchResults' = Resolved(Response(id, calls[id].branch))
          /\ formattedResults' =
               Format(calls[id].branch.fmt, Response(id, calls[id].branch))
     ELSE UNCHANGED <<searchResults, formattedResults>>
  /\ UNCHANGED <<props, query, firstRun, pc, runs, changed, scrolls>>

\* .catch((error) => ...) of a call
CallCatch(id) ==
  /\ pc = "idle" /\ id \in DOMAIN calls
  /\ calls' = Without(calls, id)
  /\ lastDone' = [ id |-> id, ok |-> FALSE, stale |-> id < runs ]
  /\ IF Applies(calls[id])
     THEN /\ searchResults' = Rejected(Failure(id))
          /\ formattedResults' = NoItems
     ELSE UNCHANGED <<searchResults, formattedResults>>
  /\ UNCHANGED <<props, query, firstRun, pc, runs, changed, scrolls>>

\* handleSearch: the form's text, page back to 1
HandleSearch(text) ==
  Push([ query EXCEPT !.page = <<"1">>, !.search = text ])

\* the tab controls are rendered when `!search` is false
TabsShown == query.search # <<>>

\* changeTab: the tab buttons
ChangeTab(t) ==
  /\ TabsShown
  /\ Push([ query EXCEPT !.page = <<"1">>, !.tab = t ])

\* onChange of the small-screen select
SelectTab(t) ==
  /\ TabsShown
  /\ Push([ query EXCEPT !.tab = t ])

\* Pagination is rendered for a search resolved with more than one page
PaginationShown ==
  /\ query.search # <<>>
  /\ searchResults.status = "resolved"
  /\ searchResults.data.total_pages > 1

\* onChange of Pagination
ChangePage(n) ==
  /\ PaginationShown
  /\ Push([ query EXCEPT !.page = NumToString(n) ])

\* what Home renders below the tab controls for an envelope: nothing when it
\* is rejected, else the skeletons when pending and the formatted list when
\* resolved; no branch of the render shows the envelope's error
ResultsRegion(env) ==
  IF env.status # "rejected"
  THEN [ skeletons |-> env.status = "pending",
         items     |-> env.status # "pending",
         message   |-> FALSE ]
  ELSE [ skeletons |-> FALSE, items |-> FALSE, message |-> FALSE ]

\* ------------------------------------------------------------ the lists page
\* a list as the remote holds it; the slug is given at creation and kept
List(n, nm) == [ id |-> n, slug |-> <<"s", n>>, name |-> nm ]

\* what getAllLists may hand to the page as props.lists
Payloads ==
  { <<>>, <<List(2, <<"a">>)>>, <<List(1, <<"a">>), List(2, <<"a">>)>> }
\* the greatest id of the lists of Payloads; created lists get the ids after it
PayloadLists == UNION { { p[k] : k \in DOMAIN p } : p \in Payloads }
PayloadIds ==
  CHOOSE n \in { l.id : l \in PayloadLists } : \A l \in PayloadLists : l.id <= n
\* what the user types in the name field
Names == { <<" ">>, <<"b">> }

NoLists == [ undefined |-> TRUE ]
SomeLists(ls) == [ lists |-> ls ]
HasLists(st) == st # NoLists

NoSlug == <<>>
NoError == <<>>
NoConfirm == [ visible |-> FALSE, title |-> <<>> ]
NoListDone == [ id |-> 0 ]

\* the list store's reducer (hooks/useList)
ListReducer(st, a) ==
  CASE a.type = "SET_LISTS" -> SomeLists(a.lists)
    [] a.type = "ADD_LIST" ->
         SomeLists((IF HasLists(st) THEN st.lists ELSE <<>>) \o <<a.list>>)
    [] a.type = "UPDATE_LIST" ->
         IF HasLists(st)
         THEN SomeLists([ k \in 1..Len(st.lists) |->
                            IF st.lists[k].slug = a.slug THEN a.list
                            ELSE st.lists[k] ])
         ELSE st
    [] a.type = "REMOVE_LIST" ->
         IF HasLists(st)
         THEN SomeLists(SelectSeq(st.lists, LAMBDA l : l.slug # a.slug))
         ELSE st

\* listDispatch of each action of as, in order
RECURSIVE DispatchAll(_, _)
DispatchAll(st, as) ==
  IF as = <<>> THEN st ELSE DispatchAll(ListReducer(st, Head(as)), Tail(as))

\* ListProvider initialState={{ lists: pageProps.lists ?? undefined }}
ProviderInitialState(pageProps) ==
  IF pageProps.kind = "lists" THEN SomeLists(pageProps.lists) ELSE NoLists

\* the remote's answers (lib/api/lists): the created list gets a fresh id and
\* slug, the renamed list keeps its id and slug
AddListResponse(n, nm) == List(n, nm)
UpdateListResponse(sl, nm) == [ id |-> sl[2], slug |-> sl, name |-> nm ]
ListFailure == <<"failed">>

\* the seed accepted whatever the store holds
SeedAcceptedAlways(st) == TRUE

\* `if (!listState.lists)`
SeedAccepted(st) == ~HasLists(st)

\* the seed effect: SET_LISTS with the page's lists when the store has none
SeedEffect(st, local) ==
  IF SeedAccepted(st)
  THEN DispatchAll(st, <<[ type |-> "SET_LISTS", lists |-> local ]>>)
  ELSE st

\* the local copy never updated from the store
SyncEffectKeepsLocal(st, local) == local

\* the effect that copies the store's lists into the local state
SyncEffect(st, local) == IF HasLists(st) THEN st.lists ELSE local

ListsMounted == page = "lists"

\* the Lists component mounted with props.lists = payload: its state is
\* initialised, then its two effects run until nothing changes
Mount(payload, st) ==
  /\ page' = "lists"
  /\ listsProps' = payload
  /\ listState' = SeedEffect(st, payload)
  /\ lists' = SyncEffect(listState', payload)
  /\ slug' = NoSlug /\ name' = <<>> /\ submitLoading' = FALSE
  /\ confirm' = NoConfirm /\ error' = NoError

\* the first page of the session: the lists page, rendered by the server
\* with its lists, or another page without lists
ListsInit ==
  /\ listCalls = << >> /\ listIssued = 0 /\ created = 0 /\ listDone = NoListDone
  /\ \/ \E payload \in Payloads :
          LET st == ProviderInitialState([ kind |-> "lists", lists |-> payload ])
          IN /\ page = "lists"
             /\ listsProps = payload
             /\ listState = SeedEffect(st, payload)
             /\ lists = SyncEffect(listState, payload)
     \/ /\ page = "other"
        /\ listsProps = <<>>
        /\ listState = ProviderInitialState([ kind |-> "other" ])
        /\ lists = <<>>
  /\ slug = NoSlug /\ name = <<>> /\ submitLoading = FALSE
  /\ confirm = NoConfirm /\ error = NoError

\* client navigation to the lists page, with the lists the server sends
Visit(payload) ==
  /\ page = "other"
  /\ Mount(payload, listState)
  /\ UNCHANGED <<listCalls, listIssued, created, listDone>>

\* client navigation away: the component is unmounted and its state is
\* gone (the state setters of its calls in flight no longer act), the store
\* stays
Leave ==
  /\ page = "lists"
  /\ page' = "other"
  /\ listCalls' = [ id \in DOMAIN listCalls |->
                      [ listCalls[id] EXCEPT !.live = FALSE ] ]
  /\ listsProps' = <<>> /\ lists' = <<>>
  /\ slug' = NoSlug /\ name' = <<>> /\ submitLoading' = FALSE
  /\ confirm' = NoConfirm /\ error' = NoError
  /\ UNCHANGED <<listState, listIssued, created, listDone>>

\* onChange of the name field
TypeName(nm) ==
  /\ ListsMounted /\ nm # name
  /\ name' = nm
  /\ UNCHANGED <<page, listState, listsProps, lists, slug,
                 submitLoading, confirm, error, listCalls, listIssued, created,
                 listDone>>

\* handleEdit of a displayed list
HandleEdit(k) ==
  /\ ListsMounted /\ k \in 1..Len(lists)
  /\ slug' = lists[k].slug
  /\ name' = lists[k].name
  /\ UNCHANGED <<page, listState, listsProps, lists, submitLoading,
                 confirm, error, listCalls, listIssued, created, listDone>>

\* handleCancel: the button is rendered while a list is edited, and disabled
\* while submitLoading
HandleCancel ==
  /\ ListsMounted /\ slug # NoSlug /\ ~submitLoading
  /\ slug' = NoSlug /\ name' = <<>>
  /\ UNCHANGED <<page, listState, listsProps, lists, submitLoading,
                 confirm, error, listCalls, listIssued, created, listDone>>

NewCall(op, sl, nm) == [ op |-> op, slug |-> sl, name |-> nm, live |-> TRUE ]

\* handleSubmit: the submit button is disabled while submitLoading
HandleSubmit ==
  /\ ListsMounted /\ ~submitLoading
  /\ IF Trim(name) # <<>>
     THEN /\ listIssued < MaxListCalls
          /\ error' = NoError
          /\ submitLoading' = TRUE
          /\ listIssued' = listIssued + 1
          /\ listCalls' = listCalls @@
               (listIssued' :> IF slug # NoSlug
                               THEN NewCall("updateList", slug, name)
                               ELSE NewCall("addList", NoSlug, name))
     ELSE UNCHANGED <<error, submitLoading, listIssued, listCalls>>
  /\ UNCHANGED <<page, listState, listsProps, lists, slug, name,
                 confirm, created, listDone>>

\* handleDelete of a displayed list
HandleDelete(k) ==
  /\ ListsMounted /\ k \in 1..Len(lists)
  /\ listIssued < MaxListCalls
  /\ listIssued' = listIssued + 1
  /\ listCalls' = listCalls @@
       (listIssued' :> NewCall("deleteList", lists[k].slug, <<>>))
  /\ UNCHANGED <<page, listState, listsProps, lists, slug, name,
                 submitLoading, confirm, error, created, listDone>>

\* the store action dispatched whether the call succeeded or not
CompletionDispatchAlways(c, ok, list) ==
  CASE c.op = "updateList" ->
         <<[ type |-> "UPDATE_LIST", slug |-> list.slug, list |-> list ]>>
    [] c.op = "addList" -> <<[ type |-> "ADD_LIST", list |-> list ]>>
    [] c.op = "deleteList" -> <<[ type |-> "REMOVE_LIST", slug |-> c.slug ]>>

\* the renamed list added instead of replaced
CompletionDispatchUpdateAdds(c, ok, list) ==
  IF ok
  THEN CASE c.op = "updateList" -> <<[ type |-> "ADD_LIST", list |-> list ]>>
         [] c.op = "addList" -> <<[ type |-> "ADD_LIST", list |-> list ]>>
         [] c.op = "deleteList" -> <<[ type |-> "REMOVE_LIST", slug |-> c.slug ]>>
  ELSE <<>>

\* what then (ok) and catch (not ok) of call c dispatch to the store; list is
\* the list the remote returned
CompletionDispatch(c, ok, list) ==
  IF ok
  THEN CASE c.op = "updateList" ->
              <<[ type |-> "UPDATE_LIST", slug |-> list.slug, list |-> list ]>>
         [] c.op = "addList" -> <<[ type |-> "ADD_LIST", list |-> list ]>>
         [] c.op = "deleteList" -> <<[ type |-> "REMOVE_LIST", slug |-> c.slug ]>>
  ELSE <<>>

ConfirmTitle(c) ==
  CASE c.op = "updateList" -> <<"List updated">>
    [] c.op = "addList" -> <<"List added">>
    [] c.op = "deleteList" -> <<"List removed">>

\* the catch leaving submitLoading as it is
CatchSubmitLoadingKept(c, loading) == loading

\* submitLoading after the catch of call c: `setSubmitLoading(false)` in the
\* catch of updateList and of addList, nothing in the catch of deleteList
CatchSubmitLoading(c, loading) ==
  IF c.op = "deleteList" THEN loading ELSE FALSE

\* then or catch of list call id; the state setters act while the component
\* that issued the call is mounted, the dispatch acts on the global store
ListCallDone(id, ok) ==
  /\ id \in DOMAIN listCalls
  /\ LET c == listCalls[id]
         list == CASE c.op = "updateList" -> UpdateListResponse(c.slug, c.name)
                   [] c.op = "addList" ->
                        AddListResponse(PayloadIds + created + 1, c.name)
                   [] c.op = "deleteList" -> <<>>
         live == c.live
     IN /\ listCalls' = Without(listCalls, id)
        /\ listDone' = [ id |-> id, ok |-> ok ]
        /\ created' = IF ok /\ c.op = "addList" THEN created + 1 ELSE created
        /\ listState' = DispatchAll(listState, CompletionDispatch(c, ok, list))
        /\ lists' = IF ListsMounted THEN SyncEffect(listState', lists) ELSE lists
        /\ IF live /\ ok
           THEN \* actionComplete
                /\ slug' = NoSlug /\ name' = <<>> /\ submitLoading' = FALSE
                /\ confirm' = [ visible |-> TRUE, title |-> ConfirmTitle(c) ]
                /\ UNCHANGED error
           ELSE IF live
           THEN /\ submitLoading' = CatchSubmitLoading(c, submitLoading)
                /\ error' = ListFailure
                /\ UNCHANGED <<slug, name, confirm>>
           ELSE UNCHANGED <<slug, name, submitLoading, confirm, error>>
  /\ UNCHANGED <<page, listsProps, listIssued>>

ListCallThen(id) == ListCallDone(id, TRUE)
ListCallCatch(id) == ListCallDone(id, FALSE)

\* onClose of the alert and of the notification
CloseAlert ==
  /\ ListsMounted /\ error # NoError
  /\ error' = NoError
  /\ UNCHANGED <<page, listState, listsProps, lists, slug, name,
                 submitLoading, confirm, listCalls, listIssued, created,
                 listDone>>

CloseNotification ==
  /\ ListsMounted /\ confirm.visible
  /\ confirm' = [ confirm EXCEPT !.visible = FALSE ]
  /\ UNCHANGED <<page, listState, listsProps, lists, slug, name,
                 submitLoading, error, listCalls, listIssued, created,
                 listDone>>

\* ------------------------------------------------------ the application
\* MoviesApp keeps one UserProvider, one ListModalProvider and one ListModal
\* around whatever page is shown: their state outlives client navigation.
Undefined == [ undefined |-> TRUE ]
Null == [ null |-> TRUE ]
Some(v) == [ some |-> v ]

\* `x ?? d`
Coalesce(x, d) == IF x = Undefined \/ x = Null THEN d ELSE x

DetailPages == { "movie", "tv", "person" }
RecordIds == { 1, 2 }

\* a movie, tv show or person as the remote answers it; the id is optional
DetailRecord(pg, id) == [ kind |-> pg, id |-> id ]

\* AuthUser
SignedIn == [ auth |-> TRUE, user |-> "user" ]
Anonymous == [ auth |-> FALSE ]

\* UserProvider initialState={pageProps.user ?? { auth: false }}
UserInitialState(pageProps) == Coalesce(pageProps.user, Anonymous)

\* the user store's reducer (hooks/useUser)
UserReducer(st, a) ==
  CASE a.type = "CLEAR_USER" -> Anonymous

\* the list modal's states and reducer (hooks/useListModal)
Hidden == [ visible |-> FALSE ]
Visible(mode, item) == [ visible |-> TRUE, mode |-> mode, item |-> item ]

ListModalReducer(st, a) ==
  CASE a.type = "SHOW_ADD_MODAL" -> Visible("add", a.item)
    [] a.type = "HIDE_MODAL" -> Hidden

\* formatMovie(movie), formatTvShow(tvShow), formatPerson(person)
DetailFormatter ==
  [ movie |-> "formatMovie", tv |-> "formatTvShow", person |-> "formatPerson" ]

\* the button dispatching the record as it is
AddButtonActionUnformatted(pg, rec) ==
  [ type |-> "SHOW_ADD_MODAL", item |-> rec ]

\* what onClick of "Add to list" of detail page pg dispatches
AddButtonAction(pg, rec) ==
  [ type |-> "SHOW_ADD_MODAL", item |-> Format(DetailFormatter[pg], rec) ]

\* the restricted prop of a WithAuth: absent, or given
RestrictedProps == { Undefined, Some(TRUE), Some(FALSE) }

\* WithAuth redirecting whoever is not signed in
WithAuthRedirectsAnonymous(prop, st) == ~st.auth

\* `restricted = true` in the parameters of WithAuth, and
\* `(restricted && !userState.auth) || (!restricted && userState.auth)`
WithAuthRedirects(prop, st) ==
  LET restricted == IF prop = Undefined THEN TRUE ELSE prop.some
  IN (restricted /\ ~st.auth) \/ (~restricted /\ st.auth)

\* a render of WithAuth: router.replace('/') when it redirects, and
\* `return <>{children}</>` whether it redirects or not
WithAuth(prop, st) ==
  [ restricted |-> prop, replaced |-> WithAuthRedirects(prop, st),
    children |-> TRUE ]

\* the pages: home, a page wrapped in WithAuth, the detail pages
HomeRoute == [ page |-> "home", record |-> Undefined ]
GateRoute == [ page |-> "gate", record |-> Undefined ]
Routes ==
  { HomeRoute, GateRoute } \cup
  { [ page |-> pg, record |-> DetailRecord(pg, Some(id)) ] :
      pg \in DetailPages, id \in RecordIds }

\* the first page of the session, with the user its props carry (the props of
\* the home page carry none)
AppInit ==
  \E r \in Routes, u \in { Undefined, Anonymous, SignedIn },
     prop \in RestrictedProps :
    /\ (r = HomeRoute) => (u = Undefined)
    /\ route = r
    /\ userState = UserInitialState([ user |-> u ])
    /\ gate = IF r = GateRoute THEN WithAuth(prop, userState) ELSE Undefined
    /\ listModal = Hidden
    /\ modalLast = [ cmd |-> "none" ]
    /\ signOuts = 0
    /\ lastSignOut = "none"

\* client navigation to another page; a page wrapped in WithAuth renders it
Goto(r, prop) ==
  /\ r # route
  /\ route' = r
  /\ gate' = IF r = GateRoute THEN WithAuth(prop, userState) ELSE Undefined
  /\ UNCHANGED <<listModal, modalLast, userState, signOuts, lastSignOut>>

\* the navigation started by router.replace('/')
RouterReplace ==
  /\ gate # Undefined /\ gate.replaced
  /\ route' = HomeRoute
  /\ gate' = Undefined
  /\ UNCHANGED <<listModal, modalLast, userState, signOuts, lastSignOut>>

\* onClick of "Add to list" on the detail page shown
AddToList ==
  /\ route.page \in DetailPages
  /\ listModal' =
       ListModalReducer(listModal, AddButtonAction(route.page, route.record))
  /\ modalLast' = [ cmd |-> "show", page |-> route.page,
                    record |-> route.record, over |-> listModal ]
  /\ UNCHANGED <<route, gate, userState, signOuts, lastSignOut>>

\* the list modal closed (components/lists/ListModal)
HideModal ==
  /\ listModal.visible
  /\ listModal' = ListModalReducer(listModal, [ type |-> "HIDE_MODAL" ])
  /\ modalLast' = [ cmd |-> "hide", over |-> listModal ]
  /\ UNCHANGED <<route, gate, userState, signOuts, lastSignOut>>

\* handleSignOut of the Footer: the button is rendered for a signed-in user
HandleSignOut ==
  /\ userState.auth
  /\ signOuts < MaxSignOuts
  /\ signOuts' = signOuts + 1
  /\ UNCHANGED <<route, gate, listModal, modalLast, userState, lastSignOut>>

\* CLEAR_USER dispatched whether signOut succeeded or not
SignOutDispatchAlways(ok) == <<[ type |-> "CLEAR_USER" ]>>

\* what then (ok) and catch (not ok) of signOut dispatch to the user store
SignOutDispatch(ok) == IF ok THEN <<[ type |-> "CLEAR_USER" ]>> ELSE <<>>

\* then (ok) or catch (not ok) of a signOut call; the WithAuth of the page
\* shown reads the user store and renders again
SignOutDone(ok) ==
  /\ signOuts > 0
  /\ signOuts' = signOuts - 1
  /\ lastSignOut' = IF ok THEN "ok" ELSE "failed"
  /\ userState' = IF SignOutDispatch(ok) = <<>> THEN userState
                  ELSE UserReducer(userState, SignOutDispatch(ok)[1])
  /\ gate' = IF gate = Undefined THEN Undefined
             ELSE WithAuth(gate.restricted, userState')
  /\ UNCHANGED <<route, listModal, modalLast>>

\* ------------------------------------------------ server-side rendering
\* getServerSideProps of the five pages. A handler runs from one await to the
\* next in one step; what the awaited remote call answers is the step's input.
\* the id parameter of a detail page: <<>> is a missing parameter
IdParams == { <<>>, <<"1">>, <<"x">>, <<"1", "x">> }
\* req.headers.cookie: absent, the jwt cookie of a signed-in session, or the
\* jwt cookie of a session that is over
SessionCookie == Some("jwt=t")
Cookies == { Undefined, SessionCookie, Some("jwt=old") }

Requests ==
  { [ page |-> "home", cookie |-> c, query |-> [ search |-> s, tab |-> t, page |-> p ] ] :
      c \in Cookies, s \in Queries, t \in TabParams, p \in PageParams } \cup
  { [ page |-> pg, cookie |-> c, id |-> i ] :
      pg \in DetailPages, c \in Cookies, i \in IdParams } \cup
  { [ page |-> "lists", cookie |-> c ] : c \in Cookies }

\* what each page hands to the auth collaborator: the home page the value of
\* req.cookies.jwt as the cookie header, the movie page nothing, the other
\* pages `req.headers.cookie ?? ''`
AuthArg(r) ==
  CASE r.page = "home" ->
         [ jwt |-> IF r.cookie = Undefined THEN Undefined
                   ELSE IF r.cookie = SessionCookie THEN Some("t")
                   ELSE Some("old") ]
    [] r.page = "movie" -> [ none |-> TRUE ]
    [] OTHER -> [ cookie |-> Coalesce(r.cookie, Some("")) ]

\* the auth collaborator (lib/api/auth): it fails, or it answers the AuthUser
\* of the credential: signed in for a cookie header that holds the cookie of
\* the signed-in session, not signed in for any other header or none. What it
\* makes of a header that holds the bare jwt value of that cookie is open.
Answer(v) == [ ok |-> TRUE, value |-> v ]
Failed == [ ok |-> FALSE ]
AuthAnswers(arg) ==
  IF arg = [ cookie |-> SessionCookie ]
  THEN { Failed, Answer(SignedIn) }
  ELSE IF arg = [ jwt |-> Some("t") ]
  THEN { Failed, Answer(Anonymous), Answer(SignedIn) }
  ELSE { Failed, Answer(Anonymous) }

\* the detail lookups (lib/api/movie, tvShow, person): a lookup fails, or
\* answers a record; only a lookup by a number answers a record with an id
RemoteOp ==
  [ lookup  |-> [ movie |-> "getMovie", tv |-> "getTvShow", person |-> "getPerson" ],
    credits |-> [ movie |-> "getMovieCredits", tv |-> "getTvCredits",
                  person |-> "getPersonCredits" ] ]
LookupAnswers(pg, n) ==
  { Failed, Answer(DetailRecord(pg, Undefined)) } \cup
  (IF n = NaN THEN {} ELSE { Answer(DetailRecord(pg, Some(n.num))) })

\* a cast credit of a CreditsResponse: every field is optional
CastCredits ==
  [ id : { Undefined, Some(7) },
    name : { Undefined, Some("n") },
    character : { Undefined, Some("c") },
    profile_path : { Undefined, Null, Some("p") } ]
\* `credits.cast.slice(0, 8)`
CastShown == 8
\* the cast of a CreditsResponse: none, one credit, or more than are shown
CastLists ==
  { <<>> } \cup { <<c>> : c \in CastCredits } \cup
  { [ k \in 1..(CastShown + 1) |->
        [ id |-> Some(k), name |-> Some("n"), character |-> Some("c"),
          profile_path |-> Some("p") ] ] }
\* the credits call fails, or answers a CreditsResponse, with a cast or not
CreditsAnswers ==
  { Failed, Answer([ cast |-> Undefined ]) } \cup
  { Answer([ cast |-> Some(l) ]) : l \in CastLists }

\* what a handler returns
NoOutcome == [ kind |-> "none" ]
RedirectHome ==
  [ kind |-> "redirect", destination |-> "/", permanent |-> FALSE ]
Props(p) == [ kind |-> "props", props |-> p ]
ReturnedNothing == [ kind |-> "undefined" ]
Thrown == [ kind |-> "thrown" ]

NoLocals == [ user |-> Undefined, record |-> Undefined, credits |-> Undefined ]
Logged(op, ok) == [ op |-> op, ok |-> ok ]

SsrInit ==
  /\ req = [ page |-> "none" ] /\ ssrPc = "idle" /\ locals = NoLocals
  /\ remoteLog = <<>> /\ outcome = NoOutcome /\ rendered = Undefined

\* `if (!query.id)` of the detail pages
NoId(r) == r.id = <<>>

\* a request arrives: the handler runs to its first await
Request(r) ==
  /\ ssrPc \in { "idle", "done" }
  /\ req' = r
  /\ locals' = NoLocals /\ remoteLog' = <<>> /\ rendered' = Undefined
  /\ IF r.page \in DetailPages /\ NoId(r)
     THEN outcome' = RedirectHome /\ ssrPc' = "done"
     ELSE /\ outcome' = NoOutcome
          /\ ssrPc' = IF r.page \in DetailPages THEN "lookup" ELSE "auth"

\* the detail page rendered with a record that has no id
LookupRedirectsOnFailure(ans) == ~ans.ok

\* the lookup's catch, and `if (!record.id)`
LookupRedirects(ans) == ~ans.ok \/ ans.value.id = Undefined

\* detail pages: the lookup by parseInt(query.id.toString())
Lookup(ans) ==
  /\ ssrPc = "lookup"
  /\ ans \in LookupAnswers(req.page, ParseInt(req.id))
  /\ remoteLog' = Append(remoteLog, Logged(RemoteOp.lookup[req.page], ans.ok))
  /\ locals' = IF ans.ok THEN [ locals EXCEPT !.record = ans.value ] ELSE locals
  /\ IF LookupRedirects(ans)
     THEN outcome' = RedirectHome /\ ssrPc' = "done"
     ELSE ssrPc' = "credits" /\ UNCHANGED outcome
  /\ UNCHANGED <<req, rendered>>

\* detail pages: the credits in their try/catch; the person page formats them
Credits(ans) ==
  /\ ssrPc = "credits"
  /\ remoteLog' = Append(remoteLog, Logged(RemoteOp.credits[req.page], ans.ok))
  /\ locals' = [ locals EXCEPT !.credits =
                   IF ~ans.ok THEN Undefined
                   ELSE IF req.page = "person"
                   THEN Format("formatPersonCredits", ans.value)
                   ELSE ans.value ]
  /\ ssrPc' = "auth"
  /\ UNCHANGED <<req, outcome, rendered>>

\* the current user of movie, tv, person and lists: authUser in a try/catch
CaughtUser(ans) == IF ans.ok THEN ans.value ELSE Anonymous

\* the lists page rendered for whoever asks
BounceNever(user) == FALSE

\* `if (!user.auth)` of the lists page
Bounce(user) == ~user.auth

\* the current user: on the home page the fetch and response.json() are
\* awaited outside any try, and their result is not returned in the props
Auth(ans) ==
  /\ ssrPc = "auth"
  /\ ans \in AuthAnswers(AuthArg(req))
  /\ remoteLog' =
       Append(remoteLog, Logged(IF req.page = "home" THEN "fetch" ELSE "authUser", ans.ok))
  /\ CASE req.page = "home" ->
            IF ans.ok
            THEN /\ locals' = [ locals EXCEPT !.user = ans.value ]
                 /\ ssrPc' = "search"
                 /\ UNCHANGED outcome
            ELSE /\ outcome' = Thrown /\ ssrPc' = "done"
                 /\ UNCHANGED locals
       [] req.page = "lists" ->
            /\ locals' = [ locals EXCEPT !.user = CaughtUser(ans) ]
            /\ IF Bounce(CaughtUser(ans))
               THEN outcome' = RedirectHome /\ ssrPc' = "done"
               ELSE ssrPc' = "lists" /\ UNCHANGED outcome
       [] OTHER ->
            /\ locals' = [ locals EXCEPT !.user = CaughtUser(ans) ]
            /\ outcome' = Props([ user |-> CaughtUser(ans),
                                  record |-> locals.record,
                                  credits |-> locals.credits ])
            /\ ssrPc' = "done"
  /\ UNCHANGED <<req, rendered>>

\* home page: the search or trending call in its try/catch
Search(ok) ==
  /\ ssrPc = "search"
  /\ LET b == ServerBranch(ServerIntent(req.query))
         p == HomeServerSideProps(req.query, ok)
     IN /\ remoteLog' = IF b.kind = "call"
                        THEN Append(remoteLog, Logged(b.op, ok))
                        ELSE remoteLog
        /\ outcome' = IF p.kind = "fault" THEN ReturnedNothing ELSE Props(p)
  /\ ssrPc' = "done"
  /\ UNCHANGED <<req, locals, rendered>>

\* lists page: getAllLists in its try/catch
GetAllLists(ans) ==
  /\ ssrPc = "lists"
  /\ remoteLog' = Append(remoteLog, Logged("getAllLists", ans.ok))
  /\ outcome' = Props([ user |-> locals.user,
                        lists |-> IF ans.ok THEN ans.value ELSE <<>> ])
  /\ ssrPc' = "done"
  /\ UNCHANGED <<req, locals, rendered>>

\* the cast item with a placeholder for the missing poster
CastItemPlaceholder(result) ==
  [ tmdbId |-> Coalesce(result.id, Some(0)),
    type |-> "person",
    title |-> Coalesce(result.name, Some("Unknown name")),
    subTitle |-> result.character,
    poster |-> Coalesce(result.profile_path, Some("placeholder")) ]

\* the item of a cast credit on the movie and tv pages
CastItem(result) ==
  [ tmdbId |-> Coalesce(result.id, Some(0)),
    type |-> "person",
    title |-> Coalesce(result.name, Some("Unknown name")),
    subTitle |-> result.character,
    poster |-> Coalesce(result.profile_path, Undefined) ]

\* `credits?.cast ? credits.cast.slice(0, 8).map(...) : null`
CastItems(credits) ==
  IF credits = Undefined THEN Undefined
  ELSE IF credits.cast = Undefined THEN Undefined
  ELSE LET cast == credits.cast.some
           shown == SubSeq(cast, 1, IF Len(cast) < CastShown THEN Len(cast)
                                    ELSE CastShown)
       IN Some([ k \in 1..Len(shown) |-> CastItem(shown[k]) ])

\* the movie or tv page rendered from its props
Render ==
  /\ ssrPc = "done" /\ outcome.kind = "props" /\ req.page \in { "movie", "tv" }
  /\ rendered = Undefined
  /\ rendered' = [ cast |-> CastItems(outcome.props.credits) ]
  /\ UNCHANGED <<req, ssrPc, locals, remoteLog, outcome>>

\* ------------------------------------------------------- the specifications
\* the lists page is not part of the behaviours of the home page
ListsOff ==
  /\ page = "other" /\ listState = NoLists /\ listsProps = <<>>
  /\ lists = <<>> /\ slug = NoSlug /\ name = <<>> /\ submitLoading = FALSE
  /\ confirm = NoConfirm /\ error = NoError /\ listCalls = << >>
  /\ listIssued = 0 /\ created = 0 /\ listDone = NoListDone

\* the home page is not part of the behaviours of the lists page
HomeOff ==
  /\ query = [ search |-> <<>>, tab |-> "", page |-> <<>> ]
  /\ props = [ kind |-> "fault" ]
  /\ searchResults = Pending /\ formattedResults = NoItems
  /\ firstRun = TRUE /\ pc = "idle" /\ calls = << >> /\ runs = 0
  /\ changed = FALSE /\ lastDone = NoneDone /\ scrolls = 0

HomeNext ==
  \/ MountEffect /\ UNCHANGED <<listVars, appVars, ssrVars>>
  \/ \E text \in Queries : HandleSearch(text) /\ UNCHANGED <<listVars, appVars, ssrVars>>
  \/ \E t \in Tabs : ChangeTab(t) /\ UNCHANGED <<listVars, appVars, ssrVars>>
  \/ \E t \in Tabs : SelectTab(t) /\ UNCHANGED <<listVars, appVars, ssrVars>>
  \/ \E n \in 1..MaxPage : ChangePage(n) /\ UNCHANGED <<listVars, appVars, ssrVars>>
  \/ EffectBranch /\ UNCHANGED <<listVars, appVars, ssrVars>>
  \/ \E id \in 1..MaxRuns : CallThen(id) /\ UNCHANGED <<listVars, appVars, ssrVars>>
  \/ \E id \in 1..MaxRuns : CallCatch(id) /\ UNCHANGED <<listVars, appVars, ssrVars>>

ListsNext ==
  \/ \E payload \in Payloads : Visit(payload) /\ UNCHANGED <<homeVars, appVars, ssrVars>>
  \/ Leave /\ UNCHANGED <<homeVars, appVars, ssrVars>>
  \/ \E nm \in Names : TypeName(nm) /\ UNCHANGED <<homeVars, appVars, ssrVars>>
  \/ \E k \in 1..(PayloadIds + MaxListCalls) : HandleEdit(k) /\ UNCHANGED <<homeVars, appVars, ssrVars>>
  \/ HandleCancel /\ UNCHANGED <<homeVars, appVars, ssrVars>>
  \/ HandleSubmit /\ UNCHANGED <<homeVars, appVars, ssrVars>>
  \/ \E k \in 1..(PayloadIds + MaxListCalls) : HandleDelete(k) /\ UNCHANGED <<homeVars, appVars, ssrVars>>
  \/ \E id \in 1..MaxListCalls : ListCallThen(id) /\ UNCHANGED <<homeVars, appVars, ssrVars>>
  \/ \E id \in 1..MaxListCalls : ListCallCatch(id) /\ UNCHANGED <<homeVars, appVars, ssrVars>>
  \/ CloseAlert /\ UNCHANGED <<homeVars, appVars, ssrVars>>
  \/ CloseNotification /\ UNCHANGED <<homeVars, appVars, ssrVars>>

\* the application shell is not part of the behaviours of the other parts
AppOff ==
  /\ route = HomeRoute /\ gate = Undefined /\ listModal = Hidden
  /\ modalLast = [ cmd |-> "none" ] /\ userState = Anonymous /\ signOuts = 0
  /\ lastSignOut = "none"

AppNext ==
  \/ \E r \in Routes, prop \in RestrictedProps :
       Goto(r, prop) /\ UNCHANGED <<homeVars, listVars, ssrVars>>
  \/ RouterReplace /\ UNCHANGED <<homeVars, listVars, ssrVars>>
  \/ AddToList /\ UNCHANGED <<homeVars, listVars, ssrVars>>
  \/ HideModal /\ UNCHANGED <<homeVars, listVars, ssrVars>>
  \/ HandleSignOut /\ UNCHANGED <<homeVars, listVars, ssrVars>>
  \/ SignOutDone(TRUE) /\ UNCHANGED <<homeVars, listVars, ssrVars>>
  \/ SignOutDone(FALSE) /\ UNCHANGED <<homeVars, listVars, ssrVars>>

SsrNext ==
  \/ \E r \in Requests : Request(r) /\ UNCHANGED <<homeVars, listVars, appVars>>
  \/ \E pg \in DetailPages, i \in IdParams :
       \E ans \in LookupAnswers(pg, ParseInt(i)) :
         Lookup(ans) /\ UNCHANGED <<homeVars, listVars, appVars>>
  \/ \E ans \in CreditsAnswers :
       Credits(ans) /\ UNCHANGED <<homeVars, listVars, appVars>>
  \/ \E ans \in AuthAnswers([ jwt |-> Some("t") ]) :
       Auth(ans) /\ UNCHANGED <<homeVars, listVars, appVars>>
  \/ \E ok \in BOOLEAN : Search(ok) /\ UNCHANGED <<homeVars, listVars, appVars>>
  \/ \E ans \in { Failed } \cup { Answer(l) : l \in Payloads } :
       GetAllLists(ans) /\ UNCHANGED <<homeVars, listVars, appVars>>
  \/ Render /\ UNCHANGED <<homeVars, listVars, appVars>>

\* a signed-in session: the footer's sign-out (its then dispatches to the
\* user store only) next to the visits of the lists page, whose link the
\* footer renders while userState.auth
SessionNext ==
  \/ \E payload \in Payloads :
       userState.auth /\ Visit(payload) /\ UNCHANGED <<homeVars, appVars, ssrVars>>
  \/ Leave /\ UNCHANGED <<homeVars, appVars, ssrVars>>
  \/ HandleSignOut /\ UNCHANGED <<homeVars, listVars, ssrVars>>
  \/ SignOutDone(TRUE) /\ UNCHANGED <<homeVars, listVars, ssrVars>>
  \/ SignOutDone(FALSE) /\ UNCHANGED <<homeVars, listVars, ssrVars>>

Init == HomeInit /\ ListsOff /\ AppOff /\ SsrInit
InitLists == ListsInit /\ HomeOff /\ AppOff /\ SsrInit
InitApp == AppInit /\ HomeOff /\ ListsOff /\ SsrInit
InitSsr == SsrInit /\ HomeOff /\ ListsOff /\ AppOff
InitSession ==
  /\ ListsInit /\ HomeOff /\ SsrInit
  /\ userState = UserInitialState([ user |-> SignedIn ])
  /\ route = HomeRoute /\ gate = Undefined /\ listModal = Hidden
  /\ modalLast = [ cmd |-> "none" ] /\ signOuts = 0 /\ lastSignOut = "none"

\* the home page
Spec == Init /\ [][HomeNext]_vars

\* the home page when every step the browser owes is taken: the second leg
\* of a started effect runs, and every remote call in flight completes, with
\* its then or its catch
LiveSpec ==
  /\ Init /\ [][HomeNext]_vars
  /\ WF_vars(EffectBranch /\ UNCHANGED <<listVars, appVars, ssrVars>>)
  /\ WF_vars((\E id \in 1..MaxRuns : CallThen(id) \/ CallCatch(id))
             /\ UNCHANGED <<listVars, appVars, ssrVars>>)

\* the lists page and the list store
ListsSpec == InitLists /\ [][ListsNext]_vars

\* the application shell: navigation, the list modal, the user store
AppSpec == InitApp /\ [][AppNext]_vars

\* the server: one request after the other
SsrSpec == InitSsr /\ [][SsrNext]_vars

\* the list store across a sign-out
SessionSpec == InitSession /\ [][SessionNext]_vars

\* ===================================================== claims: the home page
\* every call has completed and the effect is at rest
AllDone == pc = "idle" /\ calls = << >>

\* the last run of the effect issued a call (it did not take the default case)
LastRunCalled == runs >= 1 /\ ClientBranch(Intent).kind = "call"

\* C1: once every call issued by the client has completed, in whatever order,
\* the envelope is the outcome of the call of the last intent: Resolved with
\* that call's data or Rejected with that call's error, and it is the outcome
\* that call had when it completed last.
C1_LastIntentWins ==
  (AllDone /\ LastRunCalled) =>
     /\ \/ searchResults = Resolved(Response(runs, ClientBranch(Intent)))
        \/ searchResults = Rejected(Failure(runs))
     /\ lastDone.id = runs =>
          searchResults.status = (IF lastDone.ok THEN "resolved" ELSE "rejected")

\* C1 witness: several intents were committed, all calls have completed, the
\* one that completed last was a superseded one, and the envelope is the
\* last call's.
C1_Witness ==
  /\ AllDone /\ LastRunCalled /\ runs >= 2
  /\ lastDone.id # 0 /\ lastDone.id < runs
  /\ searchResults.status \in {"resolved", "rejected"}

\* C2: a Resolved envelope always holds the data of the call issued for the
\* current intent: the server's call before the first change, the call of
\* the last run of the effect afterwards.
C2_ResolvedIsCurrent ==
  searchResults.status = "resolved" =>
     /\ searchResults.data.id = runs
     /\ searchResults.data = Response(runs, ClientBranch(Intent))

\* C2 witness: the envelope is Resolved by the second call after the first
\* call completed later than it.
C2_Witness ==
  /\ searchResults.status = "resolved" /\ runs >= 2
  /\ searchResults.data.id = runs
  /\ lastDone.id # 0 /\ lastDone.id < runs

\* C3: the completion (then or catch) of a call issued before the last run of
\* the effect changes neither the envelope nor the formatted list.
C3_StaleDiscarded ==
  [][\A id \in DOMAIN calls :
       (id < runs /\ id \notin DOMAIN calls') =>
          /\ searchResults' = searchResults
          /\ formattedResults' = formattedResults]_vars

\* C3 witness: a superseded call has failed while the call of the current
\* intent had already resolved the envelope.
C3_Witness ==
  /\ lastDone.id # 0 /\ lastDone.stale /\ ~lastDone.ok
  /\ searchResults.status = "resolved"

\* C4: until search, page or tab changes on the client, the envelope and the
\* list are the server's (Resolved with its results or Rejected with its
\* error), the envelope is never Pending and no call has been issued.
C4_ServerStateUntilChange ==
  (Mounted /\ ~changed) =>
     /\ searchResults = InitialSearchResults(props)
     /\ formattedResults = InitialFormattedResults(props)
     /\ searchResults.status \in {"resolved", "rejected"}
     /\ calls = << >> /\ runs = 0 /\ pc = "idle"

\* C4 witness: the effect has run on mount and nothing has changed yet.
C4_Witness ==
  Mounted /\ ~firstRun /\ ~changed /\ searchResults.status = "resolved"

\* the operation and formatter of each tab, as claimed
OpOfTab == [ all |-> "searchAll", movie |-> "searchMovie", tv |-> "searchTv",
             person |-> "searchPerson" ]
FmtOfTab == [ all |-> "formatSearchAll", movie |-> "formatSearchMovie",
              tv |-> "formatSearchTvShow", person |-> "formatSearchPerson" ]

\* the claim of C5 for the call made for intent i, applied with formatter fmt
TabDecides(i, b) ==
  (IsSearch(i.search) /\ i.tab \in Tabs) =>
     /\ b.kind = "call"
     /\ b.op = OpOfTab[i.tab]
     /\ b.fmt = FmtOfTab[i.tab]
     /\ b.args = <<i.search, i.page>>

\* C5: for a query that is not blank, every call in flight, the formatted
\* list of a Resolved envelope and the server's call are those of the tab:
\* the tab's operation, called with the query and the page, and the tab's
\* formatter.
C5_TabSelectsOperation ==
  /\ \A id \in DOMAIN calls : TabDecides(calls[id].intent, calls[id].branch)
  /\ (runs \in DOMAIN calls) => calls[runs].intent = Intent
  /\ (searchResults.status = "resolved" /\ IsSearch(Intent.search)
        /\ Intent.tab \in Tabs) =>
        /\ searchResults.data.results =
             <<OpOfTab[Intent.tab], <<Intent.search, Intent.page>>>>
        /\ formattedResults = Format(FmtOfTab[Intent.tab], searchResults.data)
  /\ TabDecides(ServerIntent(query), ServerBranch(ServerIntent(query)))

\* C5 witness: a tv search resolved on the client.
C5_Witness ==
  /\ searchResults.status = "resolved" /\ runs >= 1
  /\ IsSearch(Intent.search) /\ Intent.tab = "tv"
  /\ formattedResults.fmt = "formatSearchTvShow"

\* what the intent (search "", tab all, page 1) resolves to
TrendingResults ==
  Response(0, ClientBranch([ search |-> <<>>, tab |-> "all", page |-> Num(1) ])).results

\* C6: for a blank query, whatever the tab and the page, the call is
\* getTrending without arguments, formatted with formatSearchAll, and a
\* Resolved envelope holds the result set of (search "", tab all, page 1).
C6_BlankIsTrending ==
  /\ \A id \in DOMAIN calls :
       ~IsSearch(calls[id].intent.search) =>
          calls[id].branch = Call("getTrending", NoArgs, "formatSearchAll")
  /\ (searchResults.status = "resolved" /\ ~IsSearch(Intent.search)) =>
        /\ searchResults.data.results = TrendingResults
        /\ searchResults.data.results = <<"getTrending", NoArgs>>
        /\ formattedResults = Format("formatSearchAll", searchResults.data)

\* C6 witness: a whitespace-only query on the person tab, page 2, resolved on
\* the client.
C6_Witness ==
  /\ searchResults.status = "resolved" /\ runs >= 1
  /\ Intent.search = <<" ">> /\ Intent.tab = "person" /\ Intent.page = Num(2)

AllowedTransitions ==
  { <<"pending", "resolved">>, <<"pending", "rejected">>,
    <<"resolved", "pending">>, <<"rejected", "pending">> }

\* C7: whenever the envelope changes, it changes along Pending->Resolved,
\* Pending->Rejected or (Resolved|Rejected)->Pending.
C7_Transitions ==
  [][searchResults' # searchResults =>
       <<searchResults.status, searchResults'.status>> \in AllowedTransitions]_vars

\* C7 witness: the default case of the effect has rejected the envelope after
\* a call of an earlier intent had been issued.
C7_Witness ==
  /\ searchResults = RejectedBare /\ runs >= 2 /\ pc = "idle"

\* C18: when the call of the current intent fails on the client, the envelope
\* becomes Rejected with that call's error and the formatted list becomes
\* empty; when the server's call fails, the page is still rendered, from
\* props that hold the error, with the envelope Rejected with that error and
\* an empty formatted list. The only request the server's handler answers
\* without props is the one for which it makes no call at all.
C18_FailureIsRejected ==
  /\ [](/\ (Mounted /\ ~changed /\ props.kind = "error") =>
              /\ props.error = Failure(0)
              /\ searchResults = [ status |-> "rejected", error |-> props.error ]
              /\ formattedResults = <<>>
        /\ ~Mounted => ServerBranch(ServerIntent(query)).kind = "none")
  /\ [][\A id \in DOMAIN calls :
          (id \notin DOMAIN calls' /\ id = runs /\ ~lastDone'.ok) =>
             /\ searchResults' = [ status |-> "rejected", error |-> Failure(id) ]
             /\ formattedResults' = <<>>]_vars

\* C18 witness: the server's call succeeded, then the call of the intent set
\* on the client failed: the envelope holds that call's error and the list is
\* empty.
C18_Witness ==
  /\ props.kind = "props" /\ runs >= 1 /\ AllDone
  /\ lastDone.id = runs /\ ~lastDone.ok
  /\ searchResults = Rejected(Failure(runs)) /\ formattedResults = NoItems

\* C19: between the start of a run of the effect and the issue of its call,
\* and for as long as the call of the current intent is in flight, the
\* envelope is Pending: it never shows the previous intent's result.
C19_PendingBeforeCall ==
  /\ pc = "branch" => searchResults = [ status |-> "pending" ]
  /\ runs \in DOMAIN calls => searchResults = [ status |-> "pending" ]

\* C19 witness: the first intent's call resolved the envelope, the intent
\* changed again, and the second call is in flight under a Pending envelope.
C19_Witness ==
  /\ runs = 2 /\ runs \in DOMAIN calls
  /\ lastDone.id = 1 /\ lastDone.ok /\ ~lastDone.stale
  /\ searchResults = Pending

\* the formatter of an intent, as claimed
FormatterOf(i) == IF IsSearch(i.search) THEN FmtOfTab[i.tab] ELSE "formatSearchAll"

\* C20: a Resolved envelope comes with the formatted list that is the
\* intent's formatter applied to the envelope's data, and nothing else; a
\* Rejected envelope comes with the empty list.
C20_FormattedMatchesEnvelope ==
  /\ searchResults.status = "resolved" =>
       formattedResults = [ fmt |-> FormatterOf(Intent), of |-> searchResults.data ]
  /\ searchResults.status = "rejected" => formattedResults = <<>>

\* C20 witness: the server rendered a list, and page 2 of a search has
\* resolved on the client: the list is that of page 2.
C20_Witness ==
  /\ props.kind = "props" /\ runs >= 1
  /\ searchResults.status = "resolved"
  /\ IsSearch(Intent.search) /\ Intent.page = Num(2)
  /\ formattedResults # InitialFormattedResults(props)
  /\ formattedResults.of.results = <<OpOfTab[Intent.tab], <<Intent.search, Num(2)>>>>

\* C21: a change of the intent that changes only the page leaves the viewport
\* where it is, and a change of the search to a new search text scrolls the
\* results region into view (one scrollIntoView call)
C21_ScrollOnNewSearchOnly ==
  [][ LET old == ClientIntent(query)
          new == ClientIntent(query')
      IN /\ (old.search = new.search /\ old.tab = new.tab /\ old.page # new.page)
              => scrolls' = scrolls
         /\ (old.search # new.search /\ IsSearch(new.search))
              => scrolls' = scrolls + 1 ]_vars

\* C22: whenever the search is empty or only blanks (the trending state),
\* neither the tab controls nor the pagination control is rendered
C22_NoControlsWhenTrending ==
  (Mounted /\ ~IsSearch(Intent.search)) => (~TabsShown /\ ~PaginationShown)

\* C23: the results region shows the loading skeletons exactly while the
\* envelope is Pending, and an inline error message whenever it is Rejected
C23_SkeletonsAndError ==
  Mounted =>
    /\ ResultsRegion(searchResults).skeletons <=> searchResults.status = "pending"
    /\ searchResults.status = "rejected" => ResultsRegion(searchResults).message

\* C32: a step that changes the search text or the tab of the URL leaves
\* the intent on page 1 and keeps the other of the two
C32_PageOneOnNewQuery ==
  [][ (query'.search # query.search \/ query'.tab # query.tab) =>
        /\ ClientIntent(query').page = Num(1)
        /\ query'.search = query.search \/ query'.tab = query.tab ]_vars

\* C34: when the second leg of every effect runs and every call completes,
\* a Pending envelope of the rendered page is followed by a Resolved or a
\* Rejected one
C34_PendingEnds ==
  (Mounted /\ searchResults.status = "pending")
    ~> (searchResults.status \in { "resolved", "rejected" })

\* the envelope was Pending for the last run of the effect and was resolved
\* or rejected by that run's call, an earlier call having been dropped
C34_Witness ==
  /\ runs = MaxRuns /\ pc = "idle" /\ calls = << >>
  /\ lastDone.id = runs
  /\ searchResults.status \in { "resolved", "rejected" }
  /\ searchResults # InitialSearchResults(props)

\* the last run of the effect has set the envelope: by its default case, or
\* by the then or the catch of its call
SettledRun ==
  /\ Mounted /\ runs >= 1 /\ pc = "idle"
  /\ ClientBranch(Intent).kind = "none" \/ lastDone.id = runs

\* the server renders the page from props p with the envelope and the list
\* the client holds, up to which call the data came from
SameAsServer(p) ==
  /\ p.kind # "fault"
  /\ searchResults.status = InitialSearchResults(p).status
  /\ searchResults.status = "resolved" =>
       /\ searchResults.data.results = p.searchResults.results
       /\ searchResults.data.total_pages = p.searchResults.total_pages
       /\ formattedResults.fmt = p.formattedResults.fmt
       /\ formattedResults.of.results = p.formattedResults.of.results
  /\ searchResults.status = "rejected" =>
       /\ "error" \in DOMAIN searchResults
       /\ searchResults.error.message = p.error.message
       /\ formattedResults = InitialFormattedResults(p)

\* C35: for the URL's (search, tab, page) the server and the client derive
\* the same intent and select the same operation and formatter, and once the
\* client's run for that URL has set the envelope, the envelope and the list
\* are those the server renders the page with for the same outcome of the
\* call, whatever the tab
C35_ServerClientAgree ==
  /\ ServerIntent(query) = ClientIntent(query)
  /\ ServerBranch(ServerIntent(query)) = ClientBranch(ClientIntent(query))
  /\ SettledRun =>
       SameAsServer(HomeServerSideProps(query,
                      IF lastDone.id = runs THEN lastDone.ok ELSE TRUE))

\* a JavaScript number that is an integer >= 1
IsPageNumber(p) == "num" \in DOMAIN p /\ p.num >= 1

\* C26: the page of the intent of the server and of the client, and the page
\* handed to every remote search call (the server's call is the one the
\* props' results come from), is an integer >= 1
C26_PageAtLeastOne ==
  /\ IsPageNumber(ServerIntent(query).page)
  /\ Mounted => IsPageNumber(Intent.page)
  /\ \A id \in DOMAIN calls :
       calls[id].branch.op # "getTrending" => IsPageNumber(calls[id].branch.args[2])
  /\ (props.kind = "props" /\ props.searchResults.results[1] # "getTrending")
       => IsPageNumber(props.searchResults.results[2][2])

\* ==================================================== claims: the list store
\* a step that is the then (ok) or the catch (not ok) of list call id
ListCompletes(id, ok) ==
  /\ id \in DOMAIN listCalls /\ id \notin DOMAIN listCalls'
  /\ listDone' = [ id |-> id, ok |-> ok ]

\* a step that mounts the lists page (and so may seed the store)
MountStep == page = "other" /\ page' = "lists"

\* C8: the store changes only in the step in which a create, rename or delete
\* call succeeds (or when the page seeds it), never when such a call is
\* issued, and a failing call leaves the store, and so its count, unchanged.
C8_StoreOnlyConfirmed ==
  [][/\ (listState' # listState /\ ~MountStep) =>
          \E id \in DOMAIN listCalls : ListCompletes(id, TRUE)
     /\ (\E id \in DOMAIN listCalls : ListCompletes(id, FALSE)) =>
          listState' = listState
     /\ (listIssued' # listIssued) => listState' = listState]_vars

\* C8 witness: a call has failed while another call was in flight, and the
\* store holds what it was seeded with.
C8_Witness ==
  /\ listDone.id # 0 /\ ~listDone.ok
  /\ listCalls # << >>
  /\ ListsMounted /\ HasLists(listState) /\ listState.lists = listsProps
  /\ Len(listState.lists) = 2

\* C9: when a rename succeeds, the store's entry with the submitted slug is
\* replaced by the list the remote returned, at the same position, and every
\* other entry, and the number of entries, is unchanged.
C9_RenameInPlace ==
  [][\A id \in DOMAIN listCalls :
       (ListCompletes(id, TRUE) /\ listCalls[id].op = "updateList") =>
          /\ HasLists(listState) /\ HasLists(listState')
          /\ Len(listState'.lists) = Len(listState.lists)
          /\ \A k \in 1..Len(listState.lists) :
               listState'.lists[k] =
                 IF listState.lists[k].slug = listCalls[id].slug
                 THEN UpdateListResponse(listCalls[id].slug, listCalls[id].name)
                 ELSE listState.lists[k]]_vars

\* C9 witness: the first of two lists has been renamed and is still first.
C9_Witness ==
  /\ listDone.id # 0 /\ listDone.ok
  /\ HasLists(listState) /\ Len(listState.lists) = 2
  /\ listState.lists[1] = List(1, <<"b">>)
  /\ listState.lists[2] = List(2, <<"a">>)

\* C10: a seed (the mount of the lists page with the page's lists) is accepted
\* only while the store has no lists: it then sets the store to the page's
\* lists; once the store has lists, a seed leaves the store unchanged
\* whatever the payload.
C10_SeedOnce ==
  [][MountStep =>
       IF HasLists(listState) THEN listState' = listState
       ELSE listState' = SomeLists(listsProps')]_vars

\* C10 witness: the page was mounted a second time, with a payload other
\* than the first, and no call was issued: the store holds the first
\* payload, not the second.
C10_Witness ==
  /\ listIssued = 0 /\ ListsMounted
  /\ HasLists(listState) /\ listState.lists # listsProps
  /\ listState.lists # <<>> /\ listsProps # <<>>

\* C24: at most one mutation (rename or delete) issued by the lists screen
\* is in flight for a slug
C24_OneMutationPerSlug ==
  \A i, j \in DOMAIN listCalls :
    ( /\ i # j
      /\ listCalls[i].live /\ listCalls[j].live
      /\ listCalls[i].op \in { "updateList", "deleteList" }
      /\ listCalls[j].op \in { "updateList", "deleteList" } )
    => listCalls[i].slug # listCalls[j].slug

C33_SubmitLoadingExact ==
  ListsMounted =>
    (submitLoading <=>
       \E id \in DOMAIN listCalls :
         listCalls[id].live /\ listCalls[id].op \in { "addList", "updateList" })

\* C25: while the lists page is shown and the store is seeded, the lists
\* displayed are the store's lists, in the store's order, whatever lists the
\* page's props carried
C25_LocalCopyIsStore ==
  (ListsMounted /\ HasLists(listState)) => lists = listState.lists

\* the store was seeded with two lists on an earlier visit, and this visit's
\* props carry one list
C25_Witness ==
  /\ ListsMounted /\ HasLists(listState) /\ listIssued = 0
  /\ Len(listState.lists) = 2 /\ Len(listsProps) = 1
  /\ lists = listState.lists

\* =================================================== claims: the application
\* C11: the one list modal is in the state that the last command given to it
\* decides, whatever page gave the command and whatever the modal showed
\* then: after a show from a detail page it is Visible, in add mode, with
\* that page's record formatted by that page's formatter; after a hide, and
\* before any command, it is Hidden.
C11_LastShowWins ==
  IF modalLast.cmd = "show"
  THEN listModal =
         [ visible |-> TRUE, mode |-> "add",
           item |-> [ fmt |-> DetailFormatter[modalLast.page],
                      of |-> modalLast.record ] ]
  ELSE listModal = [ visible |-> FALSE ]

\* C11 witness: a show was given while the modal was visible with another
\* item, the modal holds the new item, and the user has since moved to
\* another page.
C11_Witness ==
  /\ modalLast.cmd = "show" /\ modalLast.over.visible
  /\ listModal.visible /\ listModal.item # modalLast.over.item
  /\ route.page # modalLast.page

\* C13: the last render of a WithAuth issued router.replace('/') exactly when
\* the page is restricted (the prop is true or absent) and the user is not
\* signed in, or the page is not restricted and the user is signed in.
C13_GateRedirects ==
  gate # Undefined =>
    (gate.replaced <=>
       \/ (gate.restricted \in { Undefined, Some(TRUE) } /\ ~userState.auth)
       \/ (gate.restricted = Some(FALSE) /\ userState.auth))

\* C13 witness: a WithAuth without the restricted prop has redirected when
\* the user it was rendered for signed out.
C13_Witness ==
  /\ gate # Undefined /\ gate.restricted = Undefined /\ gate.replaced
  /\ lastSignOut = "ok"

\* C17: the user store changes only in the step in which a signOut call
\* succeeds, and it is then not signed in; the step in which a signOut call
\* fails leaves the user store unchanged.
C17_ClearAfterSignOut ==
  [][/\ userState' # userState =>
          (signOuts' = signOuts - 1 /\ lastSignOut' = "ok")
     /\ (signOuts' = signOuts - 1 /\ lastSignOut' = "ok") => ~userState'.auth
     /\ (signOuts' = signOuts - 1 /\ lastSignOut' = "failed") =>
          userState' = userState]_vars

\* C17 witness: a signOut call has failed and the user is still signed in.
C17_Witness ==
  lastSignOut = "failed" /\ signOuts = 0 /\ userState = SignedIn

\* C29: a render of WithAuth that redirects does not render the wrapped
\* content
C29_RedirectInsteadOfChildren ==
  (gate # Undefined /\ gate.replaced) => ~gate.children

\* a step that is the then of a signOut call
SignOutThen == signOuts' = signOuts - 1 /\ lastSignOut' = "ok"

\* C28: the then of a signOut call leaves the list store without lists, so
\* that the seed of the next visit of the lists page is accepted
C28_StoreResetOnSignOut ==
  [][ SignOutThen => ~HasLists(listState') ]_vars

\* ======================================================== claims: the server
\* the remote operation op was called for the request
Called(op) == \E k \in 1..Len(remoteLog) : remoteLog[k].op = op

\* the auth collaborator was asked and failed
AuthFailed ==
  \E k \in 1..Len(remoteLog) :
    remoteLog[k].op \in { "authUser", "fetch" } /\ ~remoteLog[k].ok

\* C12: for a request of the lists page, getAllLists is called only after
\* authUser has answered a signed-in user, and when the user is not signed
\* in the handler returns the redirect to '/' without calling getAllLists.
C12_ListsAfterAuth ==
  req.page = "lists" =>
    /\ Called("getAllLists") =>
         /\ remoteLog[1] = [ op |-> "authUser", ok |-> TRUE ]
         /\ locals.user.auth
    /\ (ssrPc = "done" /\ ~locals.user.auth) =>
         /\ outcome = [ kind |-> "redirect", destination |-> "/",
                        permanent |-> FALSE ]
         /\ ~Called("getAllLists")

\* C12 witness: a request with the cookie of a session that is over, which
\* the auth collaborator answered as not signed in, was redirected after that
\* one call.
C12_Witness ==
  /\ req.page = "lists" /\ req.cookie = Some("jwt=old") /\ ssrPc = "done"
  /\ remoteLog = <<Logged("authUser", TRUE)>>
  /\ outcome = RedirectHome

\* C14: on each of the five pages, when the auth collaborator fails the
\* handler does not throw: the lists page is redirected to '/', the other
\* pages are rendered from props whose user is { auth: false }.
C14_AuthFailureIsAnonymous ==
  (AuthFailed /\ ssrPc = "done") =>
     /\ outcome # Thrown
     /\ IF req.page = "lists"
        THEN outcome = RedirectHome
        ELSE outcome.kind = "props" /\ outcome.props.user = Anonymous

C16_CastItems ==
  (rendered # Undefined /\ outcome.props.credits # Undefined) =>
     LET credits == outcome.props.credits
     IN credits.cast # Undefined =>
          /\ rendered.cast # Undefined
          /\ LET cast == credits.cast.some
                 items == rendered.cast.some
             IN /\ Len(items) = (IF Len(cast) < 8 THEN Len(cast) ELSE 8)
                /\ \A k \in 1..Len(items) :
                     /\ items[k].tmdbId =
                          (IF cast[k].id = Undefined THEN Some(0) ELSE cast[k].id)
                     /\ items[k].type = "person"
                     /\ items[k].title =
                          (IF cast[k].name = Undefined THEN Some("Unknown name")
                           ELSE cast[k].name)
                     /\ items[k].subTitle = cast[k].character
                     /\ items[k].poster =
                          (IF cast[k].profile_path \in { Undefined, Null }
                           THEN Undefined ELSE cast[k].profile_path)

\* C16 witness: a credit without id, name and character and with a null
\* profile_path was rendered as the item of the fallbacks.
C16_Witness ==
  /\ rendered # Undefined /\ rendered.cast # Undefined
  /\ outcome.props.credits.cast.some =
       <<[ id |-> Undefined, name |-> Undefined, character |-> Undefined,
           profile_path |-> Null ]>>
  /\ rendered.cast.some =
       <<[ tmdbId |-> Some(0), type |-> "person", title |-> Some("Unknown name"),
           subTitle |-> Undefined, poster |-> Undefined ]>>


\* the user state of the application rendered from page props p
AppUser(p) ==
  UserInitialState([ user |-> IF "user" \in DOMAIN p THEN p.user ELSE Undefined ])

\* C27: on each of the five pages, when the request carries the cookie of
\* the signed-in session and the auth collaborator answers, the page is
\* rendered with auth = true in the application's user state
C27_UserFromCredential ==
  ( /\ ssrPc = "done" /\ outcome.kind = "props"
    /\ req.cookie = SessionCookie /\ ~AuthFailed )
  => AppUser(outcome.props).auth


\* C31: when getAllLists failed while the lists page was rendered on the
\* server, the page's props carry the error, and neither the props nor the
\* initial state of the list store hold an empty sequence of lists
C31_ListFetchFailureSurfaced ==
  ( /\ req.page = "lists" /\ ssrPc = "done"
    /\ \E k \in 1..Len(remoteLog) : remoteLog[k] = Logged("getAllLists", FALSE) )
  => /\ outcome.kind = "props"
     /\ "error" \in DOMAIN outcome.props
     /\ "lists" \in DOMAIN outcome.props =>
           /\ outcome.props.lists # <<>>
           /\ ProviderInitialState([ kind |-> "lists", lists |-> outcome.props.lists ])
                # SomeLists(<<>>)

====
